---------------------------- MODULE Spec2Model ----------------------------
(***************************************************************************)
(* Model of bot.py: a Telegram relay that stores each user's conversation  *)
(* in one SQLite table (memory), replays the last 20 rows of a user into   *)
(* every chat-completion call, and can speak the last stored message.      *)
(*                                                                         *)
(* The event loop runs one coroutine at a time; a coroutine gives up       *)
(* control only at an await.  Each action below is the code between two    *)
(* awaits of one handler.                                                  *)
(***************************************************************************)
EXTENDS Integers, Sequences, FiniteSets, TLC

(***************************************************************************)
(* Bounds of the exploration.                                              *)
(***************************************************************************)
MaxEvents == 2    \* updates received from Telegram in one run
PrefillLen == 20  \* rows of the long history memory.db may hold at startup

(***************************************************************************)
(* Program constants.                                                      *)
(***************************************************************************)
DEFAULT_LIMIT == 20     \* load_memory(user_id, limit=20)

NEW_SESSION == "[brain] Novaya sessiya"   \* keyboard row 1, line 95
SPEAK       == "[speaker] Ozvuchit"       \* keyboard row 2, line 96
HELP        == "[gear] Pomosch"           \* keyboard row 3, line 97
keyboard    == <<NEW_SESSION, SPEAK, HELP>>

GPT_ERROR     == "[x] Oshibka GPT. Prover OPENAI_API_KEY"   \* line 133
THINKING      == "[thought] Dumayu..."                      \* line 221
MEMORY_CLEARED == "[ok] Pamyat ochischena"                  \* line 209
HELP_TEXT     == "Napishi soobschenie ili otprav golos"     \* line 216
NO_REPLY      == "Net otveta"                               \* line 261
STT_ERROR     == "[x] Oshibka raspoznavaniya"               \* line 244
TTS_ERROR     == "Oshibka ozvuchki"                         \* line 273
BOT_READY     == "[rocket] GPT bot gotov"                   \* line 195
VOICE_FILE    == "<reply_voice>"                            \* line 277

None == "<None>"        \* Python's None, where a string is expected

(***************************************************************************)
(* Inputs.                                                                 *)
(***************************************************************************)
Users == {"u1", "u2"}
PlainTexts == {"Hi", "Bye"}                 \* ordinary chat messages
CommandTexts == {"/start"}                  \* texts filters.COMMAND accepts
Texts == PlainTexts \cup CommandTexts \cup {NEW_SESSION, SPEAK, HELP}
Replies == {"Hello!", "Sure"}               \* contents the model may return
Transcripts == {"Hi", ""}                   \* texts the transcription may return
Roles == {"user", "assistant"}

Min(a, b) == IF a < b THEN a ELSE b

(***************************************************************************)
(* DATABASE (lines 41-86).  The table memory(user_id, role, content) is a  *)
(* set of rows; SQLite gives every row a ROWID, one more than the largest  *)
(* ROWID in the table at the time of the INSERT.                           *)
(***************************************************************************)
MaxRowid(d) == IF d = {} THEN 0 ELSE CHOOSE m \in {r.rowid : r \in d} :
                                        \A r \in d : r.rowid <= m

NewRow(d, user_id, role, content) ==
    [rowid |-> MaxRowid(d) + 1, user_id |-> user_id, role |-> role,
     content |-> content]

\* Variant: INSERT OR REPLACE keyed by (user_id, role).
save_memory_upsert(d, user_id, role, content) ==
    {r \in d : ~(r.user_id = user_id /\ r.role = role)}
    \cup {NewRow(d, user_id, role, content)}

\* INSERT INTO memory VALUES(?,?,?)
save_memory(d, user_id, role, content) ==
    d \cup {NewRow(d, user_id, role, content)}

\* WHERE user_id=?
WhereUser(d, user_id) == {r \in d : r.user_id = user_id}

\* ORDER BY ROWID DESC: the rows of S, largest ROWID first (ROWIDs are
\* distinct, so the i-th row is the one with i - 1 rows above it).
OrderByRowidDesc(S) ==
    [i \in 1..Cardinality(S) |->
        CHOOSE r \in S : Cardinality({q \in S : q.rowid > r.rowid}) = i - 1]

\* LIMIT ?
Limit(rows, limit) == SubSeq(rows, 1, Min(limit, Len(rows)))

\* rows.reverse()
Reverse(rows) == [i \in 1..Len(rows) |-> rows[Len(rows) + 1 - i]]

\* [{"role": r[0], "content": r[1]} for r in rows]
AsMessages(rows) ==
    [i \in 1..Len(rows) |-> [role |-> rows[i].role, content |-> rows[i].content]]

\* Variant: line 76 (rows.reverse()) left out.
load_memory_unreversed(d, user_id, limit) ==
    AsMessages(Limit(OrderByRowidDesc(WhereUser(d, user_id)), limit))

\* lines 63-78.  rows is what fetchall() returns (line 74); x \in {e} names
\* the value of e.
load_memory(d, user_id, limit) ==
    CHOOSE messages \in
        {AsMessages(Reverse(rows)) :
            rows \in {Limit(OrderByRowidDesc(selected), limit) :
                        selected \in {WhereUser(d, user_id)}}} : TRUE

\* Variant: the DELETE removes only the rows of the default window.
clear_memory_window(d, user_id) ==
    LET shown == Limit(OrderByRowidDesc(WhereUser(d, user_id)), DEFAULT_LIMIT)
    IN  d \ {shown[i] : i \in 1..Len(shown)}

\* Variant: the DELETE has no WHERE clause.
clear_memory_all(d, user_id) == {}

\* DELETE FROM memory WHERE user_id=?
clear_memory(d, user_id) == {r \in d : r.user_id # user_id}


(***************************************************************************)
(* memory.db outlives the process (line 41, CREATE TABLE IF NOT EXISTS):   *)
(* at startup the table is empty or holds the rows of earlier runs.        *)
(* PrefillTable is such a table: one answered turn of u2, then a long      *)
(* conversation of u1 (user and assistant rows alternating).               *)
(***************************************************************************)
PrefillContent(i) ==
    IF i % 2 = 1 THEN (IF i % 3 = 0 THEN "Bye" ELSE "Hi")
                 ELSE (IF i % 3 = 1 THEN "Sure" ELSE "Hello!")

PrefillRole(i) == IF i % 2 = 1 THEN "user" ELSE "assistant"

PrefillTable ==
    {[rowid |-> i, user_id |-> "u2", role |-> PrefillRole(i),
      content |-> PrefillContent(i)] : i \in 1..2}
    \cup
    {[rowid |-> i + 2, user_id |-> "u1", role |-> PrefillRole(i),
      content |-> PrefillContent(i)] : i \in 1..PrefillLen}

PrefillHistory(u) ==
    [i \in 1..(IF u = "u1" THEN PrefillLen ELSE 2) |->
        [role |-> PrefillRole(i), content |-> PrefillContent(i)]]

(***************************************************************************)
(* State.                                                                  *)
(***************************************************************************)
VARIABLES
    db,            \* the rows of table memory, as the shared connection sees them
    update_queue,  \* updates fetched from Telegram, not yet given to a handler
    task,          \* the handler coroutines, by the number of their update
    received,      \* number of updates received so far
    hist,          \* history variable: per user, the messages inserted since
                   \* the user's last erase, in the order of insertion
    erased         \* history variable: per user, erased and nothing inserted since

vars == <<db, update_queue, task, received, hist, erased>>

\* One coroutine per update: coroutine t handles the t-th update received.
Tasks == 1..MaxEvents

Message(role, content) == [role |-> role, content |-> content]

Update ==
    [user_id : Users, kind : {"text"}, text : Texts]
    \cup [user_id : Users, kind : {"voice"}, text : {None}]

\* The updates tried when handlers interleave: every kind from u1, and from
\* u2 a chat message or a 'new session'.
InterleavedUpdate ==
    {ev \in Update : ev.user_id = "u1" \/ ev.text \in {"Hi", NEW_SESSION}}

\* The coroutine of an update that has not been dispatched (or is forgotten).
IdleTask ==
    [pc |-> "idle", handler |-> None, user_id |-> None, text |-> None,
     messages |-> <<>>, called |-> {}, tts_input |-> None,
     reply |-> None, result |-> None, exit |-> "none", store_fault |-> FALSE,
     out |-> <<>>, H0 |-> <<>>, interfered |-> FALSE]

Init ==
    /\ db \in {{}, PrefillTable}
    /\ update_queue = <<>>
    /\ task = [t \in Tasks |-> IdleTask]
    /\ received = 0
    /\ hist = [u \in Users |-> IF db = {} THEN <<>> ELSE PrefillHistory(u)]
    /\ erased = [u \in Users |-> FALSE]

(***************************************************************************)
(* Outcomes of one statement on the shared sqlite3 connection: it returns, *)
(* execute() raises (nothing written), or commit() raises (the statement's *)
(* effect stays visible on the connection).                                *)
(***************************************************************************)
Reliable == {"ok"}
Faulty == {"ok", "execute_raises", "commit_raises"}

Written(o) == o \in {"ok", "commit_raises"}

(***************************************************************************)
(* main (lines 286-308): handlers in the order of add_handler; an update   *)
(* goes to the first handler whose filter accepts it.                      *)
(***************************************************************************)
\* Variant: text_handler registered before tts_handler.
handlers_text_first ==
    << [filter |-> "CommandHandler(start)", callback |-> "start"],
       [filter |-> "TEXT & ~COMMAND", callback |-> "text_handler"],
       [filter |-> "Regex(^SPEAK$)", callback |-> "tts_handler"],
       [filter |-> "VOICE", callback |-> "voice_handler"] >>

handlers ==
    << [filter |-> "CommandHandler(start)", callback |-> "start"],
       [filter |-> "Regex(^SPEAK$)", callback |-> "tts_handler"],
       [filter |-> "VOICE", callback |-> "voice_handler"],
       [filter |-> "TEXT & ~COMMAND", callback |-> "text_handler"] >>

Accepts(filter, ev) ==
    CASE filter = "CommandHandler(start)" -> ev.kind = "text" /\ ev.text = "/start"
      [] filter = "Regex(^SPEAK$)" -> ev.kind = "text" /\ ev.text = SPEAK
      [] filter = "VOICE" -> ev.kind = "voice"
      [] filter = "TEXT & ~COMMAND" -> ev.kind = "text" /\ ev.text \notin CommandTexts

HandlerFor(ev) ==
    LET hits == {i \in DOMAIN handlers : Accepts(handlers[i].filter, ev)}
    IN  IF hits = {} THEN None
        ELSE handlers[CHOOSE i \in hits : \A j \in hits : i <= j].callback

(***************************************************************************)
(* Application.builder().token(...).build() (lines 290-292) leaves         *)
(* concurrent_updates off and every handler blocking: the next update is   *)
(* taken from the queue only when the handler of the previous one has      *)
(* returned.                                                               *)
(***************************************************************************)
Running(t) == task[t].pc \notin {"idle", "done"}

\* Variant: the application built with concurrent_updates(True).
CanDispatchConcurrently == TRUE

CanDispatch == \A t \in Tasks : ~Running(t)

\* The number of the update at the head of the queue.
FreeSlot == received - Len(update_queue) + 1

\* The guard of every handler start: conc is TRUE for the dispatcher that
\* starts each handler as its own task (concurrent_updates on).
Ready(conc, callback) ==
    /\ update_queue # <<>>
    /\ conc \/ CanDispatch
    /\ HandlerFor(Head(update_queue)) = callback

\* A new coroutine for the update at the head of the queue.
Started(callback) ==
    [IdleTask EXCEPT !.handler = callback, !.user_id = Head(update_queue).user_id,
                     !.H0 = hist[Head(update_queue).user_id]]

\* The coroutines that have not returned.  A returned coroutine stays in its
\* place, for inspection, until the next step of any handler.
Live == [t \in Tasks |-> IF task[t].pc = "done" THEN IdleTask ELSE task[t]]

\* Another coroutine wrote rows of user_id while a turn of the same user was
\* suspended between its two appends.
Interfere(user_id, self) ==
    [t \in Tasks |->
        IF t # self /\ task[t].pc = "completion" /\ task[t].user_id = user_id
        THEN [task[t] EXCEPT !.interfered = TRUE] ELSE Live[t]]

Sent(rec, op, text) == Append(rec.out, [op |-> op, text |-> text])

(***************************************************************************)
(* The polling loop puts an update on the queue.                           *)
(***************************************************************************)
Receive(ev) ==
    /\ received < MaxEvents
    /\ received' = received + 1
    /\ update_queue' = Append(update_queue, ev)
    /\ UNCHANGED <<db, task, hist, erased>>

(***************************************************************************)
(* start (lines 192-197).                                                  *)
(***************************************************************************)
start(conc) ==
    /\ Ready(conc, "start")
    /\ LET t == FreeSlot
           rec == Started("start")
       IN  task' = [Live EXCEPT ![t] =
                       [rec EXCEPT !.pc = "done", !.out = Sent(rec, "send", BOT_READY)]]
    /\ update_queue' = Tail(update_queue)
    /\ UNCHANGED <<db, received, hist, erased>>

(***************************************************************************)
(* text_handler (lines 200-225), up to its first await.                    *)
(***************************************************************************)
\* lines 205-211: text == NEW_SESSION
text_handler_new_session(conc) ==
    /\ Ready(conc, "text_handler")
    /\ Head(update_queue).text = NEW_SESSION
    /\ LET t == FreeSlot
           rec == Started("text_handler")
           u == rec.user_id
       IN  /\ db' = clear_memory(db, u)
           /\ hist' = [hist EXCEPT ![u] = <<>>]
           /\ erased' = [erased EXCEPT ![u] = TRUE]
           /\ task' = [Interfere(u, t) EXCEPT ![t] =
                         [rec EXCEPT !.pc = "done",
                                     !.out = Sent(rec, "send", MEMORY_CLEARED)]]
    /\ update_queue' = Tail(update_queue)
    /\ UNCHANGED received

\* lines 213-219: text == HELP
text_handler_help(conc) ==
    /\ Ready(conc, "text_handler")
    /\ Head(update_queue).text = HELP
    /\ LET t == FreeSlot
           rec == Started("text_handler")
       IN  task' = [Live EXCEPT ![t] =
                       [rec EXCEPT !.pc = "done", !.out = Sent(rec, "send", HELP_TEXT)]]
    /\ update_queue' = Tail(update_queue)
    /\ UNCHANGED <<db, received, hist, erased>>

\* Variant: line 221 left out; the turn starts without a placeholder.
text_handler_placeholder_unsent(conc) ==
    /\ Ready(conc, "text_handler")
    /\ Head(update_queue).text \notin {NEW_SESSION, HELP}
    /\ LET t == FreeSlot
           rec == Started("text_handler")
       IN  task' = [Live EXCEPT ![t] =
                       [rec EXCEPT !.pc = "thinking", !.text = Head(update_queue).text]]
    /\ update_queue' = Tail(update_queue)
    /\ UNCHANGED <<db, received, hist, erased>>

\* line 221: msg = await update.message.reply_text(THINKING)
text_handler_placeholder(conc) ==
    /\ Ready(conc, "text_handler")
    /\ Head(update_queue).text \notin {NEW_SESSION, HELP}
    /\ LET t == FreeSlot
           rec == Started("text_handler")
       IN  task' = [Live EXCEPT ![t] =
                       [rec EXCEPT !.pc = "thinking",
                                   !.text = Head(update_queue).text,
                                   !.out = Sent(rec, "send", THINKING)]]
    /\ update_queue' = Tail(update_queue)
    /\ UNCHANGED <<db, received, hist, erased>>

(***************************************************************************)
(* ask_gpt (lines 106-133).                                                *)
(***************************************************************************)
\* Variant: the outcome is rendered twice (a partial render, then the final one).
Deliver_twice(rec, reply) ==
    [rec EXCEPT !.pc = "done", !.result = reply, !.exit = "returned",
                !.out = Sent([rec EXCEPT !.out = Sent(rec, "edit", reply)], "edit", reply)]

\* The caller's statement after "reply = await ask_gpt(...)": text_handler
\* edits its placeholder (line 225), voice_handler sends a message (line 250).
Deliver(rec, reply) ==
    [rec EXCEPT !.pc = "done", !.result = reply, !.exit = "returned",
                !.out = Sent(rec, IF rec.handler = "text_handler" THEN "edit" ELSE "send",
                             reply)]

\* lines 129-133 entered from a store statement that raised: the exception is
\* caught and GPT_ERROR returned.
Except(rec) == Deliver([rec EXCEPT !.store_fault = TRUE], GPT_ERROR)

\* Variant: the window is loaded before the input is saved.
ask_gpt_enter_load_first(t, rec, F) ==
    \E o1 \in F, o2 \in F \ {"commit_raises"} :
        LET u == rec.user_id
            d1 == IF Written(o1) THEN save_memory(db, u, "user", rec.text) ELSE db
            in == [rec EXCEPT !.H0 = hist[u]]
        IN  /\ db' = d1
            /\ hist' = [hist EXCEPT ![u] =
                          IF Written(o1) THEN Append(@, Message("user", rec.text)) ELSE @]
            /\ erased' = [erased EXCEPT ![u] = IF Written(o1) THEN FALSE ELSE @]
            /\ task' = [(IF Written(o1) THEN Interfere(u, t) ELSE Live) EXCEPT ![t] =
                          IF o1 # "ok" \/ o2 # "ok"
                          THEN Except(in)
                          ELSE [in EXCEPT !.pc = "completion",
                                          !.messages = load_memory(db, u, DEFAULT_LIMIT),
                                          !.called = @ \cup {"completion"}]]

\* lines 108-121: save the input, load the window, hand it to the completion
\* service in a worker thread.  o1 and o2 are the outcomes of the two store
\* statements; F is the set of outcomes the connection can produce.
ask_gpt_enter(t, rec, F) ==
    \E o1 \in F, o2 \in F \ {"commit_raises"} :
        LET u == rec.user_id
            d1 == IF Written(o1) THEN save_memory(db, u, "user", rec.text) ELSE db
            in == [rec EXCEPT !.H0 = hist[u]]
        IN  /\ db' = d1
            /\ hist' = [hist EXCEPT ![u] =
                          IF Written(o1) THEN Append(@, Message("user", rec.text)) ELSE @]
            /\ erased' = [erased EXCEPT ![u] = IF Written(o1) THEN FALSE ELSE @]
            /\ task' = [(IF Written(o1) THEN Interfere(u, t) ELSE Live) EXCEPT ![t] =
                          IF o1 # "ok" \/ o2 # "ok"
                          THEN Except(in)
                          ELSE [in EXCEPT !.pc = "completion",
                                          !.messages = load_memory(d1, u, DEFAULT_LIMIT),
                                          !.called = @ \cup {"completion"}]]

\* text_handler, line 223: reply = await ask_gpt(user_id, text)
text_handler_ask_gpt(t, F) ==
    /\ task[t].pc = "thinking"
    /\ ask_gpt_enter(t, task[t], F)
    /\ UNCHANGED <<update_queue, received>>

\* Variant: line 125 (save_memory of the reply) left out.
CompletionReturns_unsaved(t, r, F) ==
    /\ task[t].pc = "completion"
    /\ task' = [Live EXCEPT ![t] = Deliver([task[t] EXCEPT !.reply = r], r)]
    /\ UNCHANGED <<db, update_queue, received, hist, erased>>

\* lines 123-127: the completion call returned reply r.
CompletionReturns(t, r, F) ==
    /\ task[t].pc = "completion"
    /\ \E o \in F :
        LET u == task[t].user_id
        IN  /\ db' = IF Written(o) THEN save_memory(db, u, "assistant", r) ELSE db
            /\ hist' = [hist EXCEPT ![u] =
                          IF Written(o) THEN Append(@, Message("assistant", r)) ELSE @]
            /\ erased' = [erased EXCEPT ![u] = IF Written(o) THEN FALSE ELSE @]
            /\ task' = [(IF Written(o) THEN Interfere(u, t) ELSE Live) EXCEPT ![t] =
                          IF o = "ok" THEN Deliver([task[t] EXCEPT !.reply = r], r)
                          ELSE Except([task[t] EXCEPT !.reply = r])]
    /\ UNCHANGED <<update_queue, received>>

\* Variant: the error placeholder is stored as the assistant's message.
CompletionFails_storing_error(t) ==
    /\ task[t].pc = "completion"
    /\ LET u == task[t].user_id
       IN  /\ db' = save_memory(db, u, "assistant", GPT_ERROR)
           /\ hist' = [hist EXCEPT ![u] = Append(@, Message("assistant", GPT_ERROR))]
           /\ erased' = [erased EXCEPT ![u] = FALSE]
           /\ task' = [Interfere(u, t) EXCEPT ![t] = Deliver(task[t], GPT_ERROR)]
    /\ UNCHANGED <<update_queue, received>>

\* Variant: the except branch takes the input of the failed turn back out of
\* the table.
CompletionFails_rollback(t) ==
    /\ task[t].pc = "completion"
    /\ LET u == task[t].user_id
           mine == WhereUser(db, u)
       IN  /\ db' = db \ {r \in mine : r.rowid = MaxRowid(mine)}
           /\ hist' = [hist EXCEPT ![u] = SubSeq(@, 1, Len(@) - 1)]
           /\ task' = [Live EXCEPT ![t] = Deliver(task[t], GPT_ERROR)]
    /\ UNCHANGED <<update_queue, received, erased>>

\* lines 115-121 raise (network error, timeout, API error): lines 129-133.
CompletionFails(t) ==
    /\ task[t].pc = "completion"
    /\ task' = [Live EXCEPT ![t] = Deliver(task[t], GPT_ERROR)]
    /\ UNCHANGED <<db, update_queue, received, hist, erased>>

(***************************************************************************)
(* voice_handler (lines 228-250) and voice_to_text (lines 140-157).        *)
(***************************************************************************)
\* lines 230-240: download the voice file, submit it for transcription.
voice_handler(conc) ==
    /\ Ready(conc, "voice_handler")
    /\ LET t == FreeSlot
           rec == Started("voice_handler")
       IN  task' = [Live EXCEPT ![t] =
                       [rec EXCEPT !.pc = "transcribing", !.called = {"transcription"}]]
    /\ update_queue' = Tail(update_queue)
    /\ UNCHANGED <<db, received, hist, erased>>

\* line 151 returns transcript.text; lines 242-248.
TranscriptionReturns(t, text, F) ==
    /\ task[t].pc = "transcribing"
    /\ LET rec == [task[t] EXCEPT !.text = text]
       IN  IF text = ""
           THEN /\ task' = [Live EXCEPT ![t] =
                              [rec EXCEPT !.pc = "done",
                                          !.out = Sent(rec, "send", STT_ERROR)]]
                /\ UNCHANGED <<db, hist, erased>>
           ELSE ask_gpt_enter(t, rec, F)
    /\ UNCHANGED <<update_queue, received>>

\* Variant: voice_to_text returns an error text, as ask_gpt does, instead of None.
TranscriptionFails_error_text(t) ==
    /\ task[t].pc = "transcribing"
    /\ ask_gpt_enter(t, [task[t] EXCEPT !.text = STT_ERROR], Reliable)
    /\ UNCHANGED <<update_queue, received>>

\* lines 153-157 return None; lines 242-246.
TranscriptionFails(t) ==
    /\ task[t].pc = "transcribing"
    /\ task' = [Live EXCEPT ![t] =
                  [@ EXCEPT !.pc = "done", !.text = None,
                            !.out = Sent(task[t], "send", STT_ERROR)]]
    /\ UNCHANGED <<db, update_queue, received, hist, erased>>

(***************************************************************************)
(* tts_handler (lines 253-279) and text_to_voice (lines 164-185).          *)
(***************************************************************************)
\* line 265
LastContent(memory) == memory[Len(memory)].content

\* Variant: lines 259-263 replaced by a default text for an empty memory.
tts_handler_unchecked(conc) ==
    /\ Ready(conc, "tts_handler")
    /\ LET t == FreeSlot
           rec == Started("tts_handler")
           memory == load_memory(db, rec.user_id, DEFAULT_LIMIT)
       IN  task' = [Live EXCEPT ![t] =
                      [rec EXCEPT !.pc = "synthesizing",
                                  !.tts_input = IF memory = <<>> THEN ""
                                                ELSE LastContent(memory),
                                  !.called = {"synthesis"}]]
    /\ update_queue' = Tail(update_queue)
    /\ UNCHANGED <<db, received, hist, erased>>

\* lines 255-269
tts_handler(conc) ==
    /\ Ready(conc, "tts_handler")
    /\ LET t == FreeSlot
           rec == Started("tts_handler")
           memory == load_memory(db, rec.user_id, DEFAULT_LIMIT)
       IN  task' = [Live EXCEPT ![t] =
                      IF memory = <<>>
                      THEN [rec EXCEPT !.pc = "done", !.out = Sent(rec, "send", NO_REPLY)]
                      ELSE [rec EXCEPT !.pc = "synthesizing",
                                       !.tts_input = LastContent(memory),
                                       !.called = {"synthesis"}]]
    /\ update_queue' = Tail(update_queue)
    /\ UNCHANGED <<db, received, hist, erased>>

\* text_to_voice returned True: lines 277-279.
SynthesisReturns(t) ==
    /\ task[t].pc = "synthesizing"
    /\ task' = [Live EXCEPT ![t] =
                  [@ EXCEPT !.pc = "done", !.out = Sent(task[t], "send_voice", VOICE_FILE)]]
    /\ UNCHANGED <<db, update_queue, received, hist, erased>>

\* text_to_voice returned False: lines 271-275.
SynthesisFails(t) ==
    /\ task[t].pc = "synthesizing"
    /\ task' = [Live EXCEPT ![t] =
                  [@ EXCEPT !.pc = "done", !.out = Sent(task[t], "send", TTS_ERROR)]]
    /\ UNCHANGED <<db, update_queue, received, hist, erased>>

(***************************************************************************)
(* The program: conc says whether the dispatcher starts handlers           *)
(* concurrently, F which outcomes a store statement can have, U which      *)
(* updates arrive.                                                         *)
(***************************************************************************)
Step(conc, F, U) ==
    \/ \E ev \in U : Receive(ev)
    \/ start(conc)
    \/ text_handler_new_session(conc)
    \/ text_handler_help(conc)
    \/ text_handler_placeholder(conc)
    \/ tts_handler(conc)
    \/ voice_handler(conc)
    \/ \E t \in Tasks : text_handler_ask_gpt(t, F)
    \/ \E t \in Tasks, r \in Replies : CompletionReturns(t, r, F)
    \/ \E t \in Tasks : CompletionFails(t)
    \/ \E t \in Tasks, text \in Transcripts : TranscriptionReturns(t, text, F)
    \/ \E t \in Tasks : TranscriptionFails(t)
    \/ \E t \in Tasks : SynthesisReturns(t)
    \/ \E t \in Tasks : SynthesisFails(t)

\* bot.py as written: updates handled one at a time, store statements succeed.
Next == Step(FALSE, Reliable, Update)

Spec == Init /\ [][Next]_vars

\* The same handlers when a store statement may raise.
NextFault == Step(FALSE, Faulty, Update)

SpecFault == Init /\ [][NextFault]_vars

\* The same handlers started as concurrent tasks.
NextConcurrent == Step(TRUE, Reliable, InterleavedUpdate)

SpecConcurrent == Init /\ [][NextConcurrent]_vars

\* bot.py with the event loop's progress: a coroutine whose await of
\* reply_text has returned is resumed, and the completion call, running in its
\* worker thread, returns or raises.
SpecLive ==
    /\ Init /\ [][Next]_vars
    /\ WF_vars(\E t \in Tasks : text_handler_ask_gpt(t, Reliable))
    /\ WF_vars(\E t \in Tasks :
                  CompletionFails(t) \/ \E r \in Replies : CompletionReturns(t, r, Reliable))

(***************************************************************************)
(* Properties.                                                             *)
(***************************************************************************)
\* The last Min(n, Len(h)) elements of h, in the order of h.
LastN(h, n) == SubSeq(h, Len(h) - Min(n, Len(h)) + 1, Len(h))

TurnHandlers == {"text_handler", "voice_handler"}

\* The window sizes tried on a history of length n.
WindowLimits(n) == {k \in {0, 1, 2, n - 1, n, n + 1, DEFAULT_LIMIT} : k >= 0}

\* C1: whatever appends and erases came before, load_memory(user_id, limit)
\* is the last min(limit, n) of the user's n stored messages, oldest first;
\* limit = n gives all of them and the default limit the most recent 20.
C1_WindowIsTail ==
    \A u \in Users : \A limit \in WindowLimits(Len(hist[u])) :
        load_memory(db, u, limit) = LastN(hist[u], limit)

\* A user holds more than 20 messages while the other user was erased.
C1_Witness ==
    \E u \in Users, v \in Users :
        /\ Len(hist[u]) > DEFAULT_LIMIT
        /\ Len(load_memory(db, u, DEFAULT_LIMIT)) = DEFAULT_LIMIT
        /\ erased[v]

\* C2: a turn whose completion call returns r, with no write to the same
\* user's rows by another handler meanwhile, changes the history from H to
\* H, (user, t), (assistant, r) and returns r.
C2_TurnAppendsBoth ==
    [][\A t \in Tasks :
          (/\ task[t].pc = "completion"
           /\ task'[t].pc = "done"
           /\ task'[t].reply # None
           /\ ~task[t].interfered)
          => /\ hist'[task[t].user_id] =
                   task[t].H0 \o <<Message("user", task[t].text),
                                   Message("assistant", task'[t].reply)>>
             /\ task'[t].result = task'[t].reply
             /\ task'[t].exit = "returned"]_vars

\* An answered turn on a non-empty history, finished while a turn of the
\* other user is suspended on its completion call.
C2_Witness ==
    \E t \in Tasks, s \in Tasks :
        /\ task[t].pc = "done" /\ task[t].handler \in TurnHandlers
        /\ task[t].reply # None /\ task[t].result = task[t].reply
        /\ task[t].H0 # <<>>
        /\ task[s].pc = "completion" /\ task[s].user_id # task[t].user_id

\* C3: whenever a turn hands messages to the completion service, its input
\* has just been appended and the messages are the window read after it: the
\* last 20 (at most) stored messages of the user, oldest first, ending with
\* (user, input).
C3_ContextIsWindow ==
    [][\A t \in Tasks :
          (task[t].pc # "completion" /\ task'[t].pc = "completion")
          => LET u == task'[t].user_id
                 m == task'[t].messages
                 input == Message("user", task'[t].text)
             IN  /\ hist'[u] = Append(hist[u], input)
                 /\ m = LastN(hist'[u], DEFAULT_LIMIT)
                 /\ Len(m) <= DEFAULT_LIMIT
                 /\ m # <<>>
                 /\ m[Len(m)] = input]_vars

\* Two turns of one user suspended on the completion call at once, one of
\* them with a full window.
C3_Witness ==
    \E t \in Tasks, s \in Tasks :
        /\ t # s
        /\ task[t].pc = "completion" /\ task[s].pc = "completion"
        /\ task[t].user_id = task[s].user_id
        /\ Len(task[t].messages) = DEFAULT_LIMIT

\* C4: when the completion call fails, ask_gpt returns the error placeholder,
\* a string that is neither None nor empty, and stores nothing.
C4_FailureReturnsPlaceholder ==
    [][\A t \in Tasks :
          (/\ task[t].pc = "completion"
           /\ task'[t].pc = "done"
           /\ task'[t].reply = None)
          => /\ task'[t].exit = "returned"
             /\ task'[t].result = GPT_ERROR
             /\ GPT_ERROR \notin {None, ""}
             /\ db' = db
             /\ hist' = hist]_vars

\* A turn that called the completion service and got no reply.
C4_Witness ==
    \E t \in Tasks :
        /\ task[t].pc = "done" /\ "completion" \in task[t].called
        /\ task[t].reply = None /\ task[t].result = GPT_ERROR
        /\ hist[task[t].user_id] # <<>>

\* C5: a failure of a store statement inside ask_gpt leaves ask_gpt as an
\* exception; it is not turned into the error placeholder.
C5_StorageFailurePropagates ==
    \A t \in Tasks :
        task[t].store_fault
        => task[t].exit = "raised" /\ task[t].result # GPT_ERROR

\* C6: from clear_memory(user_id) until the next append for the user, every
\* window read for the user is empty.
C6_EmptyAfterErase ==
    \A u \in Users :
        erased[u] => \A limit \in {1, DEFAULT_LIMIT, DEFAULT_LIMIT + 1} :
                        load_memory(db, u, limit) = <<>>

\* A 'new session' on a history longer than the window, the other user
\* still holding rows.
C6_Witness ==
    \E t \in Tasks :
        /\ task[t].pc = "done"
        /\ task[t].out = <<[op |-> "send", text |-> MEMORY_CLEARED]>>
        /\ Len(task[t].H0) > DEFAULT_LIMIT
        /\ erased[task[t].user_id]
        /\ db # {}

\* C7: a step changes the rows of user v only if it is a step of a handler
\* working for v; and clear_memory for a user without rows completes and
\* leaves the table as it was.
C7_OtherUsersUntouched ==
    [][/\ \A v \in Users :
            WhereUser(db', v) # WhereUser(db, v)
            => \E t \in Tasks : task'[t] # task[t] /\ task'[t].user_id = v
       /\ \A t \in Tasks :
            (/\ task'[t] # task[t]
             /\ task'[t].out = <<[op |-> "send", text |-> MEMORY_CLEARED]>>
             /\ WhereUser(db, task'[t].user_id) = {})
            => db' = db
       /\ (/\ update_queue # <<>>
           /\ update_queue' = Tail(update_queue)
           /\ Head(update_queue).kind = "text"
           /\ Head(update_queue).text = NEW_SESSION)
          => \E t \in Tasks :
                /\ task'[t].pc = "done"
                /\ task'[t].out = <<[op |-> "send", text |-> MEMORY_CLEARED]>>
                /\ WhereUser(db', task'[t].user_id) = {}]_vars

\* A 'new session' of a user without history while the other user has rows.
C7_Witness ==
    \E t \in Tasks, v \in Users :
        /\ task[t].pc = "done"
        /\ task[t].out = <<[op |-> "send", text |-> MEMORY_CLEARED]>>
        /\ task[t].H0 = <<>>
        /\ v # task[t].user_id
        /\ hist[v] # <<>> /\ WhereUser(db, v) # {}

\* C8: no write to a user's rows happens while a turn of that user is
\* suspended on the completion call, and no two handlers of one user are
\* alive at once.
C8_UserEventsSerialized ==
    \A t \in Tasks :
        /\ ~task[t].interfered
        /\ \A s \in Tasks \ {t} :
              ~(Running(t) /\ Running(s) /\ task[t].user_id = task[s].user_id)

\* A turn suspended on the completion call while the next update of the same
\* user waits in the queue.
C8_Witness ==
    \E t \in Tasks :
        /\ task[t].pc = "completion"
        /\ update_queue # <<>>
        /\ Head(update_queue).user_id = task[t].user_id
        /\ Head(update_queue).text \in PlainTexts \cup {NEW_SESSION}

HasAssistant(h) == \E i \in 1..Len(h) : h[i].role = "assistant"

LastAssistant(h) ==
    h[CHOOSE i \in 1..Len(h) :
        h[i].role = "assistant" /\ \A j \in (i + 1)..Len(h) : h[j].role # "assistant"]

\* C9: the text a 'speak' event submits to the synthesis service is the
\* content of the user's most recent assistant message; the event calls no
\* completion service.
C9_SpeaksLastAssistant ==
    \A t \in Tasks :
        (task[t].handler = "tts_handler" /\ task[t].tts_input # None)
        => /\ HasAssistant(task[t].H0)
           /\ task[t].tts_input = LastAssistant(task[t].H0).content
           /\ "completion" \notin task[t].called

\* C10: a 'speak' event of a user whose window is empty answers with the
\* 'no content' notice and calls no synthesis service.
C10_EmptyWindowNoSynthesis ==
    \A t \in Tasks :
        (task[t].handler = "tts_handler" /\ task[t].H0 = <<>>)
        => /\ task[t].pc = "done"
           /\ task[t].out = <<[op |-> "send", text |-> NO_REPLY]>>
           /\ task[t].called = {}
           /\ task[t].tts_input = None

\* A 'speak' event right after the user's history was erased.
C10_Witness ==
    \E t \in Tasks :
        /\ task[t].handler = "tts_handler" /\ task[t].pc = "done"
        /\ task[t].H0 = <<>>
        /\ erased[task[t].user_id]
        /\ task[t].out = <<[op |-> "send", text |-> NO_REPLY]>>


\* What a turn shows in the end: the reply, or the error placeholder.
Outcome(rec) == IF rec.reply # None THEN rec.reply ELSE GPT_ERROR

Rendered(op, text) == [op |-> op, text |-> text]

IsPrefix(h, g) == Len(h) <= Len(g) /\ SubSeq(g, 1, Len(h)) = h

\* Every stored message of the user, oldest first.
AllMessages(d, u) == load_memory(d, u, Cardinality(d))

\* The step is a 'new session' of user u.
ErasedBy(u) ==
    \E t \in Tasks :
        /\ task'[t] # task[t]
        /\ task'[t].user_id = u
        /\ task'[t].out = <<Rendered("send", MEMORY_CLEARED)>>

\* C12: a step leaves every stored row as it is (same ROWID, user, role and
\* content), so the messages a user had remain, in their order, the start of
\* the user's messages; a new row comes after every row there was; rows go
\* only in an erase of their own user.
C12_MessagesImmutable ==
    [][/\ \A r \in db : r \in db' \/ (ErasedBy(r.user_id) /\ WhereUser(db', r.user_id) = {})
       /\ \A r \in db' \ db : \A q \in db : q.rowid < r.rowid
       /\ \A u \in Users :
            IsPrefix(AllMessages(db, u), AllMessages(db', u)) \/ ErasedBy(u)]_vars

\* A user with several stored messages got a reply appended after the other
\* user was erased.
C12_Witness ==
    \E t \in Tasks, v \in Users :
        /\ task[t].pc = "done" /\ task[t].reply \in Replies
        /\ v # task[t].user_id
        /\ Len(task[t].H0) >= 2
        /\ Len(AllMessages(db, task[t].user_id)) = Len(task[t].H0) + 2
        /\ erased[v]


\* C13: the step that ends a transcription starts a turn only with recognized
\* text.  A failed transcription yields None, which is not the empty
\* transcription; the user then gets the recognition-error notice, nothing is
\* stored and the completion service is not called.
C13_TurnOnlyAfterRecognition ==
    [][\A t \in Tasks :
          (task[t].pc = "transcribing" /\ task'[t].pc # "transcribing")
          => LET rec == task'[t]
             IN  /\ None # ""
                 /\ rec.text = None
                      => /\ rec.pc = "done"
                         /\ rec.out = <<Rendered("send", STT_ERROR)>>
                         /\ "completion" \notin rec.called
                         /\ db' = db /\ hist' = hist
                 /\ ("completion" \in rec.called \/ db' # db)
                      => rec.text \in Transcripts \ {""}]_vars

\* A voice message whose transcription failed, for a user with stored messages.
C13_Witness ==
    \E t \in Tasks :
        /\ task[t].handler = "voice_handler" /\ task[t].pc = "done"
        /\ task[t].text = None
        /\ task[t].out = <<Rendered("send", STT_ERROR)>>
        /\ hist[task[t].user_id] # <<>>


\* C14: in a turn of text_handler the placeholder is the first thing sent,
\* before the input is stored and before the completion service is called;
\* and once the placeholder is sent the turn ends with that placeholder edited
\* once, to the reply or to the error placeholder.
C14_PlaceholderThenOneEdit ==
    /\ [](\A t \in Tasks :
            (task[t].handler = "text_handler" /\ task[t].text # None)
            => /\ task[t].out # <<>>
               /\ task[t].out[1] = Rendered("send", THINKING)
               /\ Len(task[t].out) <= 2
               /\ task[t].pc = "thinking"
                    => /\ "completion" \notin task[t].called
                       /\ hist[task[t].user_id] = task[t].H0)
    /\ \A t \in Tasks :
            (task[t].pc = "thinking")
            ~> (/\ task[t].pc = "done"
                /\ task[t].out = <<Rendered("send", THINKING),
                                   Rendered("edit", Outcome(task[t]))>>)

\* A text turn whose completion call failed: the placeholder now shows the
\* error placeholder.
C14_Witness ==
    \E t \in Tasks :
        /\ task[t].handler = "text_handler" /\ task[t].pc = "done"
        /\ "completion" \in task[t].called /\ task[t].reply = None
        /\ task[t].out = <<Rendered("send", THINKING), Rendered("edit", GPT_ERROR)>>


\* The labels of the three control buttons.
Labels == {keyboard[i] : i \in DOMAIN keyboard}

\* C15: the step that takes a text update whose text is a button label from
\* the queue starts no turn: its coroutine holds no input text, has not called
\* the completion service and no row is added; the speak label starts
\* tts_handler and leaves the table as it is, and so does the rest of
\* tts_handler; help leaves the table as it is; new session removes the rows of
\* the sender and no other row.
C15_LabelsStartNoTurn ==
    [][/\ (/\ update_queue # <<>>
           /\ update_queue' = Tail(update_queue)
           /\ Head(update_queue).kind = "text"
           /\ Head(update_queue).text \in Labels)
          => LET ev == Head(update_queue)
                 new == task'[FreeSlot]
             IN  /\ new.user_id = ev.user_id
                 /\ new.text = None /\ new.messages = <<>>
                 /\ "completion" \notin new.called
                 /\ new.pc \in {"done", "synthesizing"}
                 /\ db' \subseteq db
                 /\ ev.text = SPEAK => new.handler = "tts_handler" /\ db' = db
                 /\ ev.text = HELP => new.handler = "text_handler" /\ db' = db
                 /\ ev.text = NEW_SESSION
                      => /\ new.handler = "text_handler"
                         /\ db' = {r \in db : r.user_id # ev.user_id}
       /\ \A t \in Tasks :
            (task[t].handler = "tts_handler" /\ Running(t) /\ task'[t] # task[t])
            => /\ db' = db
               /\ task'[t].pc = "done"
               /\ "completion" \notin task'[t].called]_vars

\* u2 has pressed 'new session', which left the rows of u1 in the table, and
\* u1 has then pressed 'speak': tts_handler is synthesizing.
C15_Witness ==
    \E t \in Tasks :
        /\ task[t].handler = "tts_handler" /\ task[t].pc = "synthesizing"
        /\ task[t].user_id = "u1"
        /\ erased["u2"] /\ WhereUser(db, "u2") = {}
        /\ db # {}


\* C16: in the table, every assistant message of a user comes directly after
\* a user message of the same user, in the order of insertion; and while a
\* turn waits for the completion service the last message of its user is the
\* input of that turn, so that the reply is stored directly after it.
C16_AssistantFollowsUser ==
    /\ \A u \in Users :
         LET h == AllMessages(db, u)
         IN  \A i \in DOMAIN h :
                h[i].role = "assistant" => i > 1 /\ h[i - 1].role = "user"
    /\ \A t \in Tasks :
         task[t].pc = "completion"
         => LET h == AllMessages(db, task[t].user_id)
            IN  h # <<>> /\ h[Len(h)] = Message("user", task[t].text)

\* A failed turn and then an answered turn of one user, from an empty table:
\* two user messages, then the reply to the second.
C16_Witness ==
    \E u \in Users, t \in Tasks :
        LET h == AllMessages(db, u)
        IN  /\ Len(h) = 3
            /\ h[1].role = "user" /\ h[2].role = "user" /\ h[3].role = "assistant"
            /\ task[t].pc = "done" /\ task[t].user_id = u
            /\ h[2].content = task[t].text /\ h[3].content = task[t].reply


\* C17: the step on which the completion call of a turn fails leaves the
\* user's stored history as it was when the turn began plus the input of the
\* turn, and nothing else; the error placeholder is never a row of the table;
\* and a turn that begins on a history ending with an unanswered input sends a
\* context that ends with that input followed by its own input.
C17_FailedTurnKeepsInput ==
    /\ [](/\ \A r \in db : r.content # GPT_ERROR
          /\ \A t \in Tasks :
                (/\ task[t].pc = "completion"
                 /\ task[t].H0 # <<>>
                 /\ task[t].H0[Len(task[t].H0)].role = "user")
                => LET m == task[t].messages
                   IN  /\ Len(m) >= 2
                       /\ m[Len(m) - 1] = task[t].H0[Len(task[t].H0)]
                       /\ m[Len(m)] = Message("user", task[t].text))
    /\ [][\A t \in Tasks :
            (/\ task[t].pc = "completion"
             /\ task'[t].pc = "done" /\ task'[t].reply = None)
            => LET u == task[t].user_id
               IN  /\ task'[t].result = GPT_ERROR
                   /\ AllMessages(db', u)
                        = Append(task[t].H0, Message("user", task[t].text))
                   /\ \A v \in Users \ {u} : WhereUser(db', v) = WhereUser(db, v)]_vars

\* From an empty table: the first turn of a user failed, and the second turn
\* of that user now waits for the completion service with a context of the
\* two inputs.
C17_Witness ==
    \E t \in Tasks :
        /\ task[t].pc = "completion"
        /\ Len(task[t].messages) = 2
        /\ task[t].messages[1].role = "user"
        /\ task[t].messages[2] = Message("user", task[t].text)
        /\ task[t].H0 = <<task[t].messages[1]>>
        /\ AllMessages(db, task[t].user_id) = task[t].messages

=============================================================================
